---- MODULE Spec2Model ----
\* Section activation, navigation, scroll debounce, project carousel, theme toggle
\* and contact form of script.js, modelled as a state machine over the DOM flags,
\* the storage and the timers the script reads and writes.
EXTENDS Integers, Sequences, FiniteSets, TLC

\* ---------------------------------------------------------------- bounds
NumSections == 3        \* elements matching SECTION_SELECTOR, in document order
NumTargets == 2         \* reveal targets inside each section
MaxBatch == 2           \* entries in one IntersectionObserver callback batch
SectionHeight == 2      \* rect.height of every section (layout units)
ViewportHeight == 2     \* window.innerHeight (layout units)
NumCards == 3           \* '.project-card' elements, and as many '.indicator' elements
CardWidth == 2          \* card.offsetWidth = carousel.clientWidth (layout units)
TickMs == 60            \* the step in which time advances, in ms

\* ---------------------------------------------------------------- program constants
StaggerMs == 70         \* el.style.transitionDelay = `${i * 70}ms`
ThresholdPct == 50      \* entry.intersectionRatio > 0.5, in percent
SettleMs == 120         \* setTimeout(..., 120) of the scroll watcher

\* ---------------------------------------------------------------- markup
\* Section s (1..NumSections, document order) carries id s.
Sections == 1..NumSections
\* An id that no element of the document carries.
MissingId == NumSections + 1
\* One nav link per section, plus one whose href names no element.
Links == 1..(NumSections + 1)
\* link.getAttribute('href').slice(1)
Href(l) == l
\* Positions of the reveal targets of a section in querySelectorAll order (0-based).
TargetIdx == 0..(NumTargets - 1)
\* Target 0 is a '.reveal' element; every later target is a '.glow-in' element,
\* which the selector of setActiveSection matches and the observer's does not.
TargetClass(i) == IF i = 0 THEN "reveal" ELSE "glow-in"
\* intersectionRatio values an entry may carry, in percent: at the threshold, above it.
Ratios == {ThresholdPct, 100}
Keys == {"ArrowDown", "PageDown", "ArrowUp", "PageUp"}
\* window.scrollY ranges over the scrollable extent of the stacked sections.
DocHeight == NumSections * SectionHeight
MaxScrollY == IF DocHeight > ViewportHeight THEN DocHeight - ViewportHeight ELSE 0
ScrollPositions == 0..MaxScrollY
\* Cards and indicators by 0-based index, in matching order.
Cards == 0..(NumCards - 1)
\* carousel.scrollLeft ranges from the first card aligned to the last card aligned.
CarouselPositions == 0..((NumCards - 1) * CardWidth)

VARIABLES
    pc,                 \* "loading" before DOMContentLoaded, "ready" after the handler ran,
                        \* "aborted" after the handler threw
    dom,                \* active / ariaHidden / targets / navCurrent flags
    scrollY,            \* window scroll position
    scrollStopTimeout,  \* the scroll watcher's timer handle: 0 for null, else a timer id
    timers,             \* the host's pending timeouts of the scroll watcher: [id, left]
    sinceScroll,        \* history: ms and settle runs since the last scroll event, and
                        \* whether one or several scroll events came since the last run
    lastActivated,      \* id of the last setActiveSection call, 0 once an observer callback ran
    car,                \* carousel: currentIndex, card / indicator flags, scroll state
    env,                \* what the host provides: storage access, the carousel container
    theme,              \* data-theme, the persisted preference, the toggle button
    form,               \* contact form: field values, inline errors, status message
    themeBefore,        \* history: the theme in effect before each of the last two toggles
    last                \* the handler that ran last and its argument

vars ==
    <<pc, dom, scrollY, scrollStopTimeout, timers, sinceScroll, lastActivated, car, env, theme, form, themeBefore, last>>

\* ---------------------------------------------------------------- DOM helpers
Abs(x) == IF x < 0 THEN -x ELSE x

\* String(!isActive)
BoolString(b) == IF b THEN "true" ELSE "false"

\* document.getElementById(id) finds an element
ElementExists(id) == id \in Sections

\* sections.findIndex(s => s.classList.contains('active')): 0-based, -1 when none
FindActiveIndex(d) ==
    IF \E s \in Sections : d.active[s]
    THEN (CHOOSE s \in Sections :
            d.active[s] /\ \A t \in Sections : d.active[t] => s <= t) - 1
    ELSE -1

\* getActiveIndex that answers 0, the first section, when no section is active.
getActiveIndexOrFirst(d) == IF FindActiveIndex(d) < 0 THEN 0 ELSE FindActiveIndex(d)

\* getActiveIndex()
getActiveIndex(d) == FindActiveIndex(d)

\* updateNavCurrent that sets aria-current on the matching links and never
\* removes it from the others.
updateNavCurrentNoRemove(d) ==
    LET activeIndex == FindActiveIndex(d)
    IN [d EXCEPT !.navCurrent =
          [l \in Links |-> d.navCurrent[l]
                            \/ (activeIndex + 1 \in Sections /\ Href(l) = activeIndex + 1)]]

\* updateNavCurrent(): aria-current="page" on the links of the first active section
updateNavCurrent(d) ==
    LET activeIndex == FindActiveIndex(d)
    IN [d EXCEPT !.navCurrent =
          [l \in Links |-> activeIndex + 1 \in Sections /\ Href(l) = activeIndex + 1]]

\* The reveal loop with the same delay on every target instead of i * 70ms.
RevealTargetsNoStagger(ts) ==
    [i \in TargetIdx |-> [visible |-> TRUE, delay |-> <<StaggerMs>>]]

\* targets.forEach((el, i) => { transitionDelay = i*70ms; add 'is-visible' })
RevealTargets(ts) ==
    [i \in TargetIdx |-> [visible |-> TRUE, delay |-> <<i * StaggerMs>>]]

\* prevTargets.forEach(el => { remove 'is-visible'; transitionDelay = '' })
\* for the targets that match '.is-visible'
HideVisibleTargets(ts) ==
    [i \in TargetIdx |->
        IF ts[i].visible THEN [visible |-> FALSE, delay |-> <<>>] ELSE ts[i]]

\* The body of sections.forEach in setActiveSection, for one section s.
SectionTargetsAfter(ts, isActive) ==
    IF isActive THEN RevealTargets(ts) ELSE HideVisibleTargets(RevealTargets(ts))

\* setActiveSection that adds "active" to the section with the id and leaves the
\* class of the other sections alone.
setActiveSectionAddOnly(d, id) ==
    updateNavCurrent(
        [d EXCEPT
            !.active = [s \in Sections |-> d.active[s] \/ s = id],
            !.ariaHidden = [s \in Sections |-> BoolString(~(s = id))],
            !.targets = [s \in Sections |-> SectionTargetsAfter(d.targets[s], s = id)]])

\* setActiveSection with classList.toggle('active') called without its force
\* argument on the section with the id.
setActiveSectionFlip(d, id) ==
    updateNavCurrent(
        [d EXCEPT
            !.active = [s \in Sections |-> s = id /\ ~d.active[s]],
            !.ariaHidden = [s \in Sections |-> BoolString(~(s = id))],
            !.targets = [s \in Sections |-> SectionTargetsAfter(d.targets[s], s = id)]])

\* setActiveSection(id)
setActiveSection(d, id) ==
    updateNavCurrent(
        [d EXCEPT
            !.active = [s \in Sections |-> s = id],
            !.ariaHidden = [s \in Sections |-> BoolString(~(s = id))],
            !.targets = [s \in Sections |-> SectionTargetsAfter(d.targets[s], s = id)]])

\* navigateToSection that scrolls and focuses only, leaving the activation to the
\* observer.
navigateToSectionScrollOnly(d, id) == d

\* navigateToSection without the early return for an id no element carries.
navigateToSectionNoGuard(d, id) == setActiveSection(d, id)

\* navigateToSection(id): returns early when no element carries the id
navigateToSection(d, id) ==
    IF ~ElementExists(id) THEN d ELSE setActiveSection(d, id)

\* The id goToNextSection navigates to, sections[idx + 1].id, or 0 when its
\* guard idx < sections.length - 1 fails.
nextSectionId(d) ==
    LET idx == getActiveIndex(d)
    IN IF idx < NumSections - 1 THEN (idx + 1) + 1 ELSE 0

\* goToPrevSection's target when it wraps around to the last section instead of
\* stopping at the first.
prevSectionIdWrap(d) ==
    LET idx == getActiveIndex(d)
    IN IF idx > 0 THEN (idx - 1) + 1 ELSE NumSections

\* The id goToPrevSection navigates to, sections[idx - 1].id, or 0 when its
\* guard idx > 0 fails.
prevSectionId(d) ==
    LET idx == getActiveIndex(d)
    IN IF idx > 0 THEN (idx - 1) + 1 ELSE 0

\* goToNextSection()
goToNextSection(d) ==
    IF nextSectionId(d) # 0 THEN navigateToSection(d, nextSectionId(d)) ELSE d

\* goToPrevSection()
goToPrevSection(d) ==
    IF prevSectionId(d) # 0 THEN navigateToSection(d, prevSectionId(d)) ELSE d

\* keydown listener of initNavigation
onKeyDown(d, k) ==
    IF k = "ArrowDown" \/ k = "PageDown" THEN goToNextSection(d)
    ELSE IF k = "ArrowUp" \/ k = "PageUp" THEN goToPrevSection(d)
    ELSE d

\* One entry of the IntersectionObserver callback.
observeEntry(d, entry) ==
    LET s == entry.target
    IN IF entry.ratio > ThresholdPct
       THEN updateNavCurrent(
              [d EXCEPT
                 !.active[s] = TRUE,
                 !.targets[s] = [i \in TargetIdx |->
                     IF TargetClass(i) = "reveal"
                     THEN [d.targets[s][i] EXCEPT !.visible = TRUE]
                     ELSE d.targets[s][i]]])
       ELSE [d EXCEPT !.active[s] = FALSE]

\* entries.forEach(entry => ...)
RECURSIVE observerCallback(_, _)
observerCallback(d, entries) ==
    IF entries = <<>> THEN d
    ELSE observerCallback(observeEntry(d, Head(entries)), Tail(entries))

\* ---------------------------------------------------------------- geometry
\* rect.top of section s at scroll position y
RectTop(s, y) == (s - 1) * SectionHeight - y
\* Math.abs(center - viewportCenter) with center = rect.top + rect.height / 2 and
\* viewportCenter = window.innerHeight / 2, doubled to stay in the integers.
CenterDist(s, y) == Abs(2 * RectTop(s, y) + SectionHeight - ViewportHeight)

\* The forEach of chooseClosestSection with the comparison turned around.
RECURSIVE ClosestFromFarthest(_, _, _, _)
ClosestFromFarthest(s, closest, minDist, y) ==
    IF s > NumSections THEN closest
    ELSE LET dist == CenterDist(s, y)
         IN IF minDist = <<>> \/ dist > minDist[1]
            THEN ClosestFromFarthest(s + 1, s, <<dist>>, y)
            ELSE ClosestFromFarthest(s + 1, closest, minDist, y)

\* The forEach of chooseClosestSection with <= for <: the last of several
\* equally near sections wins.
RECURSIVE ClosestFromLastOnTie(_, _, _, _)
ClosestFromLastOnTie(s, closest, minDist, y) ==
    IF s > NumSections THEN closest
    ELSE LET dist == CenterDist(s, y)
         IN IF minDist = <<>> \/ dist <= minDist[1]
            THEN ClosestFromLastOnTie(s + 1, s, <<dist>>, y)
            ELSE ClosestFromLastOnTie(s + 1, closest, minDist, y)

\* The forEach of chooseClosestSection from section s on; minDist is <<>> for Infinity.
RECURSIVE ClosestFrom(_, _, _, _)
ClosestFrom(s, closest, minDist, y) ==
    IF s > NumSections THEN closest
    ELSE LET dist == CenterDist(s, y)
         IN IF minDist = <<>> \/ dist < minDist[1]
            THEN ClosestFrom(s + 1, s, <<dist>>, y)
            ELSE ClosestFrom(s + 1, closest, minDist, y)

\* chooseClosestSection(): 0 stands for null
chooseClosestSection(y) ==
    IF NumSections = 0 THEN 0 ELSE ClosestFrom(1, 1, <<>>, y)

\* ---------------------------------------------------------------- scroll watcher
\* clearTimeout(id): no effect when no pending timeout has that id
clearTimeout(pending, id) == {t \in pending : t.id # id}

\* The id setTimeout returns: one that no pending timeout has.
FreshId(pending) ==
    CHOOSE i \in 1..(Cardinality(pending) + 1) :
        /\ \A t \in pending : t.id # i
        /\ \A j \in 1..(i - 1) : \E t \in pending : t.id = j

\* setTimeout(callback, ms)
setTimeout(pending, ms) ==
    LET id == FreshId(pending)
    IN [scrollStopTimeout |-> id, timers |-> pending \cup {[id |-> id, left |-> ms]}]

\* The scroll listener without its clearTimeout.
scrollListenerNoClear(w) == setTimeout(w.timers, SettleMs)

\* The window scroll listener: if (scrollStopTimeout) clearTimeout(scrollStopTimeout);
\* scrollStopTimeout = setTimeout(..., 120)
scrollListener(w) ==
    LET pending == IF w.scrollStopTimeout # 0
                   THEN clearTimeout(w.timers, w.scrollStopTimeout)
                   ELSE w.timers
    IN setTimeout(pending, SettleMs)

\* ---------------------------------------------------------------- carousel
\* the last two elements of a sequence
LastTwo(q) == IF Len(q) > 2 THEN SubSeq(q, Len(q) - 1, Len(q)) ELSE q

Max(a, b) == IF a > b THEN a ELSE b
Min(a, b) == IF a < b THEN a ELSE b

\* updateIndicators(index)
updateIndicators(c, index) ==
    [c EXCEPT !.indicatorActive = [i \in Cards |-> i = index]]

\* cards.forEach((c, i) => c.classList.toggle('active-slide', i === currentIndex))
toggleActiveSlide(c) ==
    [c EXCEPT !.cardActive = [i \in Cards |-> i = c.currentIndex]]

\* scrollToIndex as the earlier updateCarousel: scrolls and updates the indicators,
\* and leaves the cards' 'active-slide' class alone.
scrollToIndexIndicatorsOnly(c, index) ==
    LET clamped == Max(0, Min(NumCards - 1, index))
    IN IF clamped \notin Cards THEN c
       ELSE updateIndicators(
              [c EXCEPT !.scrolledTo = clamped, !.currentIndex = clamped], clamped)

\* scrollToIndex(index)
scrollToIndex(c, index) ==
    LET clamped == Max(0, Min(NumCards - 1, index))
    IN IF clamped \notin Cards THEN c
       ELSE toggleActiveSlide(
              updateIndicators(
                [c EXCEPT !.scrolledTo = clamped, !.currentIndex = clamped], clamped))

\* Math.abs(cardCenter - center) with cardCenter = offsetLeft + offsetWidth / 2 and
\* center = scrollLeft + clientWidth / 2, doubled to stay in the integers.
CardDist(i, x) == Abs(2 * (i * CardWidth) + CardWidth - (2 * x + CardWidth))

\* The forEach of indexFromScroll from card i on; minDist is <<>> for Infinity.
RECURSIVE ClosestCardFrom(_, _, _, _)
ClosestCardFrom(i, closest, minDist, x) ==
    IF i > NumCards - 1 THEN closest
    ELSE LET dist == CardDist(i, x)
         IN IF minDist = <<>> \/ dist < minDist[1]
            THEN ClosestCardFrom(i + 1, i, <<dist>>, x)
            ELSE ClosestCardFrom(i + 1, closest, minDist, x)

\* indexFromScroll()
indexFromScroll(x) == ClosestCardFrom(0, 0, <<>>, x)

\* The carousel timer callback that updates the indicators and leaves the cards'
\* 'active-slide' class alone.
carouselSettleIndicatorsOnly(c) ==
    LET idx == indexFromScroll(c.scrollLeft)
    IN IF idx # c.currentIndex
       THEN updateIndicators([c EXCEPT !.currentIndex = idx], idx)
       ELSE c

\* The carousel timer callback that moves the indicator and the 'active-slide'
\* class and forgets to store the index in currentIndex.
carouselSettleKeepIndex(c) ==
    LET idx == indexFromScroll(c.scrollLeft)
    IN IF idx # c.currentIndex
       THEN [toggleActiveSlide(updateIndicators([c EXCEPT !.currentIndex = idx], idx))
                EXCEPT !.currentIndex = c.currentIndex]
       ELSE c

\* The timer callback of the carousel scroll listener.
carouselSettle(c) ==
    LET idx == indexFromScroll(c.scrollLeft)
    IN IF idx # c.currentIndex
       THEN toggleActiveSlide(updateIndicators([c EXCEPT !.currentIndex = idx], idx))
       ELSE c

\* initProjectCarousel(): let currentIndex = 0, then "Ensure initial state"
initProjectCarousel(c) ==
    toggleActiveSlide(updateIndicators([c EXCEPT !.currentIndex = 0], 0))

\* ---------------------------------------------------------------- theme
\* updateThemeButton(theme): aria-pressed = String(theme === 'dark')
updateThemeButton(th, value) ==
    [th EXCEPT !.pressed = BoolString(value = "dark")]

\* localStorage.getItem(Theme.KEY) throws
themeInitThrows(e) == e.storage = "blocked"

\* Theme.init(), when localStorage.getItem returns
themeInit(th) ==
    LET applied == IF th.saved # "none" THEN [th EXCEPT !.attr = th.saved] ELSE th
    IN updateThemeButton(applied, applied.attr)

\* The theme Theme.toggle() takes as the current one:
\* getAttribute('data-theme') === 'light' ? 'light' : 'dark'
currentTheme(th) == IF th.attr = "light" THEN "light" ELSE "dark"

\* Theme.toggle() without the localStorage.setItem call
themeToggleNoStore(th, e) ==
    LET next == IF currentTheme(th) = "light" THEN "dark" ELSE "light"
    IN updateThemeButton([th EXCEPT !.attr = next], next)

\* Theme.toggle(); e is the host, whose setItem may throw inside the try
themeToggle(th, e) ==
    LET cur == currentTheme(th)
        next == IF cur = "light" THEN "dark" ELSE "light"
        stored == IF e.storage = "ok" THEN next ELSE th.saved
    IN updateThemeButton([th EXCEPT !.attr = next, !.saved = stored], next)

\* ---------------------------------------------------------------- contact form
\* isEmailValid(value): /^[^\s@]+@[^\s@]+\.[^\s@]+$/ over EmailValues
isEmailValid(value) == value = "ann@example.org"

\* The submit listener: its first statement reads `carousel`, a name that is not
\* in scope in initForm, so the listener throws a ReferenceError before it
\* validates, writes a message or resets anything.
formSubmit(f) == f

\* The input listener of a field: setError(i, ''), status.textContent = ''
formInput(f, field, v) ==
    [f EXCEPT !.value[field] = v, !.error[field] = "", !.status = ""]

\* ---------------------------------------------------------------- initial state
Entries == [target : Sections, ratio : Ratios]
Batches == UNION {[1..n -> Entries] : n \in 1..MaxBatch}

\* localStorage: "ok", "readonly" (setItem throws, as with an exhausted quota) or
\* "blocked" (every access throws, as with site data disabled).
StorageStates == {"ok", "readonly", "blocked"}
Environments == [storage : StorageStates, hasCarousel : BOOLEAN]
\* data-theme on the root element, and the value stored under Theme.KEY.
ThemeAttrs == {"unset", "light", "dark"}
SavedThemes == {"none", "light", "dark"}
\* Values typed into the contact form.
NameValues == {"", "Ann"}
EmailValues == {"", "ann", "ann@example.org"}
MessageValues == {"", "hello"}
Fields == {"name", "email", "message"}
FieldValues(f) ==
    IF f = "name" THEN NameValues ELSE IF f = "email" THEN EmailValues ELSE MessageValues
EmptyForm ==
    [value |-> [f \in Fields |-> ""], error |-> [f \in Fields |-> ""], status |-> ""]

\* The document as parsed: any section may carry class "active" in the markup,
\* no aria attribute is set and no reveal target is visible yet.
InitSections ==
    /\ pc = "loading"
    /\ \E a \in [Sections -> BOOLEAN] :
         dom = [active |-> a,
                ariaHidden |-> [s \in Sections |-> "unset"],
                targets |-> [s \in Sections |->
                               [i \in TargetIdx |-> [visible |-> FALSE, delay |-> <<>>]]],
                navCurrent |-> [l \in Links |-> FALSE]]
    /\ scrollY = 0
    /\ scrollStopTimeout = 0
    /\ timers = {}
    /\ sinceScroll = [ms |-> SettleMs, settles |-> 0, burst |-> "none"]
    /\ lastActivated = 0
    /\ last = [op |-> "none", arg |-> 0, again |-> FALSE]
    /\ form = EmptyForm
    /\ themeBefore = <<>>

\* The carousel as parsed: any card and any indicator may carry class "active".
InitCarousel ==
    \E ca \in [Cards -> BOOLEAN], ia \in [Cards -> BOOLEAN] :
        car = [currentIndex |-> 0, cardActive |-> ca, indicatorActive |-> ia,
               scrolledTo |-> -1, scrollLeft |-> 0, scrollTimeout |-> FALSE]

\* A host with working storage, a carousel in the markup and no theme preference.
Init ==
    /\ InitSections
    /\ InitCarousel
    /\ env = [storage |-> "ok", hasCarousel |-> TRUE]
    /\ theme = [attr |-> "unset", saved |-> "none", pressed |-> "unset"]

\* Any host: storage may refuse access, the carousel container may be missing, and
\* the markup and the storage may carry any theme. No card or indicator is marked
\* active in the markup.
PageInit ==
    /\ InitSections
    /\ car = [currentIndex |-> 0, cardActive |-> [j \in Cards |-> FALSE],
              indicatorActive |-> [j \in Cards |-> FALSE],
              scrolledTo |-> -1, scrollLeft |-> 0, scrollTimeout |-> FALSE]
    /\ env \in Environments
    /\ \E a \in ThemeAttrs, sv \in SavedThemes :
         theme = [attr |-> a, saved |-> sv, pressed |-> "unset"]

\* ---------------------------------------------------------------- handlers
\* Bookkeeping of a handler run: op and arg name the handler and its argument, id is
\* the id it handed to setActiveSection (0 when it made no such call); again records
\* that the call repeats the previous setActiveSection call with nothing in between.
Note(op, arg, id) ==
    /\ last' = [op |-> op, arg |-> arg, again |-> id # 0 /\ id = lastActivated]
    /\ lastActivated' = IF id # 0 THEN id ELSE lastActivated

\* DOMContentLoaded handler. Theme.init() is its first statement and reads
\* localStorage outside any try: when that throws, the handler ends there.
Load ==
    /\ pc = "loading"
    /\ IF themeInitThrows(env)
       THEN /\ pc' = "aborted"
            /\ Note("load", 0, 0)
            /\ UNCHANGED <<dom, car, theme>>
       ELSE /\ pc' = "ready"
            /\ theme' = themeInit(theme)
            /\ car' = IF env.hasCarousel THEN initProjectCarousel(car) ELSE car
            /\ dom' = IF NumSections > 0 THEN setActiveSection(dom, 1) ELSE dom
            /\ Note("load", 0, IF NumSections > 0 THEN 1 ELSE 0)
    /\ UNCHANGED <<scrollY, scrollStopTimeout, timers, sinceScroll, env, form, themeBefore>>

\* click listener of a nav link
ClickNavLink(l) ==
    /\ pc = "ready"
    /\ dom' = navigateToSection(dom, Href(l))
    /\ Note("click", Href(l), IF ElementExists(Href(l)) THEN Href(l) ELSE 0)
    /\ UNCHANGED <<pc, scrollY, scrollStopTimeout, timers, sinceScroll, car, env, theme, form, themeBefore>>

\* The id a key press hands to setActiveSection, 0 when it calls nothing.
KeyTarget(d, k) ==
    IF k = "ArrowDown" \/ k = "PageDown" THEN nextSectionId(d)
    ELSE IF k = "ArrowUp" \/ k = "PageUp" THEN prevSectionId(d)
    ELSE 0

\* keydown listener
KeyDown(k) ==
    /\ pc = "ready"
    /\ dom' = onKeyDown(dom, k)
    /\ Note(k, KeyTarget(dom, k), KeyTarget(dom, k))
    /\ UNCHANGED <<pc, scrollY, scrollStopTimeout, timers, sinceScroll, car, env, theme, form, themeBefore>>

\* IntersectionObserver callback with one batch of entries
ObserverCallback(entries) ==
    /\ pc = "ready"
    /\ dom' = observerCallback(dom, entries)
    /\ lastActivated' = 0
    /\ last' = [op |-> "observer", arg |-> 0, again |-> FALSE]
    /\ UNCHANGED <<pc, scrollY, scrollStopTimeout, timers, sinceScroll, car, env, theme, form, themeBefore>>

\* window scroll listener: clearTimeout, then setTimeout(..., 120)
Scroll(y) ==
    /\ pc = "ready"
    /\ scrollY' = y
    /\ LET w == scrollListener([scrollStopTimeout |-> scrollStopTimeout,
                                timers |-> timers])
       IN /\ scrollStopTimeout' = w.scrollStopTimeout
          /\ timers' = w.timers
    /\ sinceScroll' = [ms |-> 0, settles |-> 0,
                       burst |-> IF sinceScroll.settles > 0 \/ sinceScroll.burst = "none"
                                 THEN "one" ELSE "several"]
    /\ Note("scroll", y, 0)
    /\ UNCHANGED <<pc, dom, car, env, theme, form, themeBefore>>

\* A timeout of the scroll watcher is due and the host runs its callback. The
\* handle in scrollStopTimeout is left as it is.
ScrollSettle ==
    /\ pc = "ready"
    /\ \E t \in timers :
         /\ t.left = 0
         /\ timers' = timers \ {t}
    /\ sinceScroll' = [sinceScroll EXCEPT !.settles = @ + 1]
    /\ LET sec == chooseClosestSection(scrollY)
       IN /\ dom' = IF sec # 0 THEN setActiveSection(dom, sec) ELSE dom
          /\ Note("settle", sec, sec)
    /\ UNCHANGED <<pc, scrollY, scrollStopTimeout, car, env, theme, form, themeBefore>>

\* TickMs of time pass while a timeout of the scroll watcher is running.
Tick ==
    /\ pc = "ready"
    /\ \E t \in timers : t.left > 0
    /\ timers' = {[t EXCEPT !.left = Max(t.left - TickMs, 0)] : t \in timers}
    /\ sinceScroll' = [sinceScroll EXCEPT !.ms = Min(@ + TickMs, SettleMs)]
    /\ Note("tick", 0, 0)
    /\ UNCHANGED <<pc, dom, scrollY, scrollStopTimeout, car, env, theme, form, themeBefore>>

\* click listener of '.carousel-btn.prev'
ClickPrev ==
    /\ pc = "ready"
    /\ env.hasCarousel
    /\ car' = scrollToIndex(car, car.currentIndex - 1)
    /\ Note("prev", car.currentIndex, 0)
    /\ UNCHANGED <<pc, dom, scrollY, scrollStopTimeout, timers, sinceScroll, env, theme, form, themeBefore>>

\* click listener of '.carousel-btn.next'
ClickNext ==
    /\ pc = "ready"
    /\ env.hasCarousel
    /\ car' = scrollToIndex(car, car.currentIndex + 1)
    /\ Note("next", car.currentIndex, 0)
    /\ UNCHANGED <<pc, dom, scrollY, scrollStopTimeout, timers, sinceScroll, env, theme, form, themeBefore>>

\* click listener of indicator k
ClickIndicator(k) ==
    /\ pc = "ready"
    /\ env.hasCarousel
    /\ car' = scrollToIndex(car, k)
    /\ Note("indicator", k, 0)
    /\ UNCHANGED <<pc, dom, scrollY, scrollStopTimeout, timers, sinceScroll, env, theme, form, themeBefore>>

\* carousel scroll listener (drag, trackpad, wheel or a running smooth scroll):
\* clearTimeout, then setTimeout(..., 80)
CarouselScroll(x) ==
    /\ pc = "ready"
    /\ env.hasCarousel
    /\ car' = [car EXCEPT !.scrollLeft = x, !.scrollTimeout = TRUE]
    /\ Note("carouselScroll", x, 0)
    /\ UNCHANGED <<pc, dom, scrollY, scrollStopTimeout, timers, sinceScroll, env, theme, form, themeBefore>>

\* the carousel settle timer fires
CarouselSettle ==
    /\ pc = "ready"
    /\ env.hasCarousel
    /\ car.scrollTimeout
    /\ car' = [carouselSettle(car) EXCEPT !.scrollTimeout = FALSE]
    /\ Note("carouselSettle", indexFromScroll(car.scrollLeft), 0)
    /\ UNCHANGED <<pc, dom, scrollY, scrollStopTimeout, timers, sinceScroll, env, theme, form, themeBefore>>

\* click listener of '#theme-toggle'
ToggleTheme ==
    /\ pc = "ready"
    /\ theme' = themeToggle(theme, env)
    /\ Note("toggle", 0, 0)
    /\ themeBefore' = LastTwo(Append(themeBefore, currentTheme(theme)))
    /\ UNCHANGED <<pc, dom, scrollY, scrollStopTimeout, timers, sinceScroll, car, env, form>>

\* input listener of a contact form field
FormInput(field, v) ==
    /\ pc = "ready"
    /\ form' = formInput(form, field, v)
    /\ Note("input", 0, 0)
    /\ UNCHANGED <<pc, dom, scrollY, scrollStopTimeout, timers, sinceScroll, car, env, theme, themeBefore>>

\* submit listener of the contact form
FormSubmit ==
    /\ pc = "ready"
    /\ form' = formSubmit(form)
    /\ Note("submit", 0, 0)
    /\ UNCHANGED <<pc, dom, scrollY, scrollStopTimeout, timers, sinceScroll, car, env, theme, themeBefore>>

Next ==
    \/ Load
    \/ \E l \in Links : ClickNavLink(l)
    \/ \E k \in Keys : KeyDown(k)
    \/ \E e \in Entries : ObserverCallback(<<e>>)
    \/ \E y \in ScrollPositions : Scroll(y)
    \/ Tick
    \/ ScrollSettle

\* The section machine: load, navigation, observer and scroll-settle handlers.
\* The observer callback handles its entries one after the other, so a batch of k
\* entries leads where k one-entry batches lead; here every batch has one entry.
Spec == Init /\ [][Next]_vars

\* The observer beside navigation, with batches of up to MaxBatch entries.
ObserverNext ==
    \/ Load
    \/ \E l \in Links : ClickNavLink(l)
    \/ \E b \in Batches : ObserverCallback(b)

ObserverSpec == Init /\ [][ObserverNext]_vars

\* The carousel machine, with nav clicks moving the active section beside it.
CarouselNext ==
    \/ Load
    \/ \E l \in Links : ClickNavLink(l)
    \/ ClickPrev
    \/ ClickNext
    \/ \E k \in Cards : ClickIndicator(k)
    \/ \E x \in CarouselPositions : CarouselScroll(x)
    \/ CarouselSettle

CarouselSpec == Init /\ [][CarouselNext]_vars

\* The two users of the nearest-element resolution: the page's and the carousel's
\* scroll listeners with their timers.
ResolverNext ==
    \/ Load
    \/ \E y \in ScrollPositions : Scroll(y)
    \/ Tick
    \/ ScrollSettle
    \/ \E x \in CarouselPositions : CarouselScroll(x)
    \/ CarouselSettle

ResolverSpec == Init /\ [][ResolverNext]_vars

\* Startup on any host, the theme toggle and the contact form, beside navigation.
PageNext ==
    \/ Load
    \/ \E l \in Links : ClickNavLink(l)
    \/ ToggleTheme
    \/ \E field \in Fields : \E v \in FieldValues(field) : FormInput(field, v)
    \/ FormSubmit

PageSpec == PageInit /\ [][PageNext]_vars

\* ---------------------------------------------------------------- properties
ActiveSet(d) == {s \in Sections : d.active[s]}
CurrentLinks(d) == {l \in Links : d.navCurrent[l]}
DownKeys == {"ArrowDown", "PageDown"}
UpKeys == {"ArrowUp", "PageUp"}

\* C1: in every state after the load handler ran, exactly one section has the
\* active flag set.
C1_ExactlyOneActive ==
    pc = "ready" => Cardinality(ActiveSet(dom)) = 1

\* C2: when the load handler has finished and no other event has been processed,
\* the first section is active with aria-hidden "false" and every other section is
\* inactive with aria-hidden "true".
C2_FirstActiveOnLoad ==
    last.op = "load" =>
        \A s \in Sections :
            /\ dom.active[s] = (s = 1)
            /\ dom.ariaHidden[s] = (IF s = 1 THEN "false" ELSE "true")

\* C2 witness: the load handler ran on markup that had marked another section
\* active, and left the first section active and the second hidden.
C2_Witness ==
    /\ last.op = "load"
    /\ dom.active[1]
    /\ dom.ariaHidden[1] = "false"
    /\ NumSections > 1 /\ ~dom.active[2] /\ dom.ariaHidden[2] = "true"

\* C3: when the click handler of a nav link whose target is the id of an existing
\* section X returns, X is the only active section, whatever was active before;
\* the latest click decides.
C3_ClickActivatesTarget ==
    (last.op = "click" /\ ElementExists(last.arg)) => ActiveSet(dom) = {last.arg}

\* C3 witness: a click on the link of the last section has made it the only
\* active section.
C3_Witness ==
    /\ last.op = "click"
    /\ last.arg = NumSections
    /\ ActiveSet(dom) = {NumSections}

\* C4: with section i the active one and i not last, ArrowDown or PageDown makes
\* section i+1 active and section i inactive, and aria-current="page" sits on the
\* link of section i+1 and no longer on the link of section i; symmetrically
\* ArrowUp or PageUp with i not first activates section i-1.
C4_KeyMovesToNeighbour ==
    [][\A i \in Sections :
          /\ (last'.op \in DownKeys /\ ActiveSet(dom) = {i} /\ i < NumSections) =>
                (ActiveSet(dom)' = {i + 1} /\ CurrentLinks(dom)' = {i + 1})
          /\ (last'.op \in UpKeys /\ ActiveSet(dom) = {i} /\ i > 1) =>
                (ActiveSet(dom)' = {i - 1} /\ CurrentLinks(dom)' = {i - 1})]_vars

\* C4 witness: ArrowDown has moved the activation and aria-current to section 2.
C4_Witness ==
    /\ last.op = "ArrowDown"
    /\ last.arg = 2
    /\ ActiveSet(dom) = {2}
    /\ CurrentLinks(dom) = {2}

C6_ActivateTwiceSameState ==
    [][last'.again => dom' = dom]_vars

\* C6 witness: the settle timer activated the section that the previous call had
\* already activated.
C6_Witness ==
    /\ last.op = "settle"
    /\ last.again
    /\ ActiveSet(dom) = {last.arg}

\* C7: in every state after the load handler ran, aria-hidden is "false" exactly
\* on the active sections and "true" exactly on the inactive ones.
C7_AriaHiddenMatchesActive ==
    pc = "ready" =>
        \A s \in Sections : dom.ariaHidden[s] = BoolString(~dom.active[s])

\* C8: in every state after the load handler ran, a nav link carries
\* aria-current="page" if and only if its target is an active section.
C8_NavCurrentMatchesActive ==
    pc = "ready" =>
        \A l \in Links :
            dom.navCurrent[l] <=> (ElementExists(Href(l)) /\ dom.active[Href(l)])

\* C9: when the scroll-settle callback has run and no later event has been
\* processed, exactly one section is active and no section's center is nearer
\* the viewport midpoint than its center.
C9_SettleActivatesNearest ==
    last.op = "settle" =>
        \E s \in Sections :
            /\ ActiveSet(dom) = {s}
            /\ \A t \in Sections : CenterDist(s, scrollY) <= CenterDist(t, scrollY)

\* C9 witness: the page was scrolled to its end and the settle callback made the
\* last section the only active one.
C9_Witness ==
    /\ last.op = "settle"
    /\ scrollY = MaxScrollY
    /\ ActiveSet(dom) = {NumSections}

\* C10: once the carousel is initialized, exactly one card and exactly one
\* indicator are active, at the same index, whatever section is active.
C10_OneCardOneIndicator ==
    (pc = "ready" /\ env.hasCarousel) =>
        \E i \in Cards :
            /\ {j \in Cards : car.cardActive[j]} = {i}
            /\ {j \in Cards : car.indicatorActive[j]} = {i}

\* C10 witness: a free scroll settled on the last card while a section other than
\* the first is active.
C10_Witness ==
    /\ last.op = "carouselSettle"
    /\ car.cardActive[NumCards - 1]
    /\ car.indicatorActive[NumCards - 1]
    /\ ~dom.active[1]

\* C11: with n cards and index i, next sets the index to min(i+1, n-1), previous
\* to max(i-1, 0) and a click on indicator k to k; afterwards the card and the
\* indicator at the new index are the only active ones, that card is the one
\* scrolled into view, and the index is within 0..n-1.
C11_ControlsSetIndex ==
    (last.op \in {"next", "prev", "indicator"}) =>
        /\ last.op = "next" => car.currentIndex = Min(last.arg + 1, NumCards - 1)
        /\ last.op = "prev" => car.currentIndex = Max(last.arg - 1, 0)
        /\ last.op = "indicator" => car.currentIndex = last.arg
        /\ car.currentIndex \in Cards
        /\ {j \in Cards : car.cardActive[j]} = {car.currentIndex}
        /\ {j \in Cards : car.indicatorActive[j]} = {car.currentIndex}
        /\ car.scrolledTo = car.currentIndex

\* C11 witness: next was activated at index 0 and card 1 is active, indicated and
\* scrolled into view.
C11_Witness ==
    /\ last.op = "next"
    /\ last.arg = 0
    /\ car.currentIndex = 1
    /\ car.cardActive[1] /\ ~car.cardActive[0]
    /\ car.indicatorActive[1] /\ ~car.indicatorActive[0]
    /\ car.scrolledTo = 1

\* ---------------------------------------------------------------- startup, theme, form
\* C12: startup always completes: whatever the storage does and whether or not the
\* carousel container exists, once the DOMContentLoaded handler has run the
\* handlers are installed and the first section is active.
C12_StartupCompletes ==
    pc # "loading" =>
        /\ pc = "ready"
        /\ last.op = "load" => dom.active[1]

\* C13 as stated: two toggles in a row give back the theme that was in effect, and
\* after every toggle the stored preference is the theme in effect.
C13_ToggleTwiceAndPersist ==
    /\ Len(themeBefore) = 2 => currentTheme(theme) = themeBefore[1]
    /\ Len(themeBefore) >= 1 => theme.saved = currentTheme(theme)

\* C13 amended: a toggle flips the theme in effect, two toggles in a row give back
\* the theme that was in effect, the button follows the theme, and the stored
\* preference is the new theme when the write succeeds and is left as it was when
\* the write throws.
C13_ToggleTwicePersistWhenStored ==
    [][last'.op = "toggle" =>
          /\ currentTheme(theme') # currentTheme(theme)
          /\ theme'.attr = currentTheme(theme')
          /\ theme'.pressed = BoolString(theme'.attr = "dark")
          /\ Len(themeBefore') = 2 => currentTheme(theme') = themeBefore'[1]
          /\ IF env.storage = "ok"
             THEN theme'.saved = currentTheme(theme')
             ELSE theme'.saved = theme.saved]_vars

C13_Witness ==
    /\ last.op = "toggle"
    /\ env.storage = "ok"
    /\ themeBefore = <<"dark", "light">>
    /\ theme.attr = "dark"
    /\ theme.saved = "dark"

\* C14: a submit with an empty name writes the name error and the "fix the errors"
\* status and keeps the fields; a submit with every field filled and a valid email
\* writes the success status and clears the fields.
C14_SubmitValidates ==
    [][last'.op = "submit" =>
          /\ form.value["name"] = "" =>
                /\ form'.error["name"] = "Please enter your name."
                /\ form'.status = "Please fix the errors above."
                /\ form'.value = form.value
          /\ (/\ form.value["name"] # ""
              /\ isEmailValid(form.value["email"])
              /\ form.value["message"] # "") =>
                /\ form'.status = "Thanks - your message was sent (simulation)."
                /\ form'.value = [f \in Fields |-> ""]]_vars

\* ---------------------------------------------------------------- observer entries
\* the entries of a batch with intersectionRatio > 0.5, in processing order
HighEntries(entries) == SelectSeq(entries, LAMBDA e : e.ratio > ThresholdPct)

\* C15: an observer callback with one entry of ratio > 0.5 for section X leaves the
\* page as activate(X) does: X is the only active section, aria-hidden is "false"
\* on X and "true" elsewhere, and exactly the nav links to X are current.
C15_ObserverEntryActivates ==
    [][\A e \in Entries :
          (e.ratio > ThresholdPct /\ ObserverCallback(<<e>>)) =>
              /\ ActiveSet(dom') = {e.target}
              /\ \A s \in Sections : dom'.ariaHidden[s] = BoolString(s # e.target)
              /\ CurrentLinks(dom') = {l \in Links : Href(l) = e.target}]_vars

\* C16: after an observer callback whose batch holds entries of ratio > 0.5, exactly
\* one section is active: the target of the last such entry.
C16_BatchLastWins ==
    [][\A b \in Batches :
          (HighEntries(b) # <<>> /\ ObserverCallback(b)) =>
              LET high == HighEntries(b)
              IN ActiveSet(dom') = {high[Len(high)].target}]_vars

\* C17: an observer callback with one entry of ratio <= 0.5 takes the active flag
\* from a section only when it gives the flag to a section that did not have it,
\* and never leaves the page without an active section.
C17_LowEntryIsOnlyAHint ==
    [][\A e \in Entries :
          (e.ratio <= ThresholdPct /\ ObserverCallback(<<e>>)) =>
              /\ ActiveSet(dom) \ ActiveSet(dom') # {} =>
                    ActiveSet(dom') \ ActiveSet(dom) # {}
              /\ ActiveSet(dom) # {} => ActiveSet(dom') # {}]_vars

\* ---------------------------------------------------------------- nearest element
\* C18: the section handed to setActiveSection by the settle callback and the index
\* computed by the carousel's settle callback are at minimal center distance, no
\* earlier element is as near, and computing them again at the same scroll position
\* gives the same element.
C18_NearestEarliestOnTie ==
    /\ last.op = "settle" =>
          LET s == last.arg
          IN /\ s \in Sections
             /\ \A t \in Sections : CenterDist(s, scrollY) <= CenterDist(t, scrollY)
             /\ \A t \in Sections :
                   t < s => CenterDist(s, scrollY) < CenterDist(t, scrollY)
             /\ chooseClosestSection(scrollY) = s
    /\ last.op = "carouselSettle" =>
          LET i == last.arg
              x == car.scrollLeft
          IN /\ i \in Cards
             /\ \A j \in Cards : CardDist(i, x) <= CardDist(j, x)
             /\ \A j \in Cards : j < i => CardDist(i, x) < CardDist(j, x)
             /\ indexFromScroll(x) = i

\* C18 witness: both settle callbacks have run at a scroll position where two
\* elements are equally near, and each took the earlier one.
C18_Witness ==
    /\ last.op = "carouselSettle"
    /\ \E j \in Cards :
          /\ j > last.arg
          /\ CardDist(j, car.scrollLeft) = CardDist(last.arg, car.scrollLeft)
    /\ sinceScroll.settles = 1
    /\ dom.active[lastActivated]
    /\ \E t \in Sections :
          /\ t > lastActivated
          /\ CenterDist(t, scrollY) = CenterDist(lastActivated, scrollY)

\* ---------------------------------------------------------------- scroll debounce
\* C19: at most one timeout of the scroll watcher is pending; right after a scroll
\* event the pending timeout is the new one with the full 120ms to run; the settle
\* callback runs only when 120ms have passed since the last scroll event; and after
\* a burst of scroll events the callback runs once: never twice, and it has run
\* once no timeout is left pending.
C19_OneTimerOneResolution ==
    /\ Cardinality(timers) <= 1
    /\ last.op = "scroll" =>
          timers = {[id |-> scrollStopTimeout, left |-> SettleMs]}
    /\ last.op = "settle" => sinceScroll.ms >= SettleMs
    /\ sinceScroll.settles <= 1
    /\ timers # {} => sinceScroll.settles = 0
    /\ (timers = {} /\ sinceScroll.burst # "none") => sinceScroll.settles = 1

\* C19 witness: a burst of several scroll events has been resolved once.
C19_Witness ==
    /\ last.op = "settle"
    /\ sinceScroll.burst = "several"
    /\ sinceScroll.settles = 1
    /\ timers = {}

\* ---------------------------------------------------------------- carousel settle
\* C20: when the carousel's settle callback has run, currentIndex is the index of a
\* card whose center is nearest the carousel's center, and that card and that
\* indicator are the active ones; when that index was already the current index,
\* the callback changed nothing on the page or in the carousel.
C20_SettleResyncsCarousel ==
    [][last'.op = "carouselSettle" =>
          LET idx == car'.currentIndex
          IN /\ idx \in Cards
             /\ idx = indexFromScroll(car.scrollLeft)
             /\ \A j \in Cards :
                   CardDist(idx, car.scrollLeft) <= CardDist(j, car.scrollLeft)
             /\ {j \in Cards : car'.cardActive[j]} = {idx}
             /\ {j \in Cards : car'.indicatorActive[j]} = {idx}
             /\ idx = car.currentIndex =>
                   /\ dom' = dom
                   /\ car' = [car EXCEPT !.scrollTimeout = FALSE]]_vars

\* C20 witness: the carousel was at the second card, was scrolled back to its start,
\* and the settle callback has moved the index, the card and the indicator to 0.
C20_Witness ==
    /\ last.op = "carouselSettle"
    /\ last.arg = 0
    /\ car.scrolledTo = 1
    /\ car.scrollLeft = 0
    /\ car.currentIndex = 0
    /\ car.cardActive[0] /\ ~car.cardActive[1]
    /\ car.indicatorActive[0] /\ ~car.indicatorActive[1]

\* ---------------------------------------------------------------- stale signals
\* C21: a settle callback whose timeout was set before the most recent change of
\* the active section is dropped. A key press that handed a section to
\* setActiveSection changed the active section and set no timeout, so a settle
\* callback that runs right after it comes from an older scroll event and must
\* leave the page as the key press left it.
C21_StaleSettleDiscarded ==
    [][(last.op \in Keys /\ last.arg # 0 /\ last'.op = "settle") => dom' = dom]_vars

\* ---------------------------------------------------------------- missing target
\* C22: a click on a nav link whose href names no element of the document leaves
\* every active flag, aria-hidden, reveal flag, stagger delay and aria-current as
\* it was, and the page keeps running.
C22_MissingTargetIsNoOp ==
    [][(last'.op = "click" /\ ~ElementExists(last'.arg)) =>
          (dom' = dom /\ pc' = "ready")]_vars

\* C22 witness: the link to the missing id was clicked while the second section
\* was the active one, and it still is.
C22_Witness ==
    /\ last.op = "click"
    /\ last.arg = MissingId
    /\ pc = "ready"
    /\ ActiveSet(dom) = {2}
    /\ CurrentLinks(dom) = {2}
    /\ dom.ariaHidden[2] = "false"

\* ---------------------------------------------------------------- reveal targets
\* The id the last handler handed to setActiveSection, 0 when it made no call.
LastCallId ==
    IF last.op = "load" THEN 1
    ELSE IF last.op \in ({"click", "settle"} \cup Keys) /\ ElementExists(last.arg)
         THEN last.arg
         ELSE 0

\* C23: when a handler has called setActiveSection(id), every reveal target of
\* section id is visible with a stagger delay of its position times 70ms, and
\* every reveal target of every other section is not visible and has no delay.
C23_RevealFollowsActivation ==
    LastCallId # 0 =>
        \A s \in Sections : \A i \in TargetIdx :
            IF s = LastCallId
            THEN /\ dom.targets[s][i].visible
                 /\ dom.targets[s][i].delay = <<i * StaggerMs>>
            ELSE /\ ~dom.targets[s][i].visible
                 /\ dom.targets[s][i].delay = <<>>

\* C23 witness: a click activated the second section after the first had been
\* revealed on load; the second section's targets are staggered and the first
\* section's targets are hidden again.
C23_Witness ==
    /\ last.op = "click"
    /\ last.arg = 2
    /\ dom.targets[2][0].visible /\ dom.targets[2][0].delay = <<0>>
    /\ dom.targets[2][NumTargets - 1].visible
    /\ dom.targets[2][NumTargets - 1].delay = <<(NumTargets - 1) * StaggerMs>>
    /\ \A i \in TargetIdx : ~dom.targets[1][i].visible /\ dom.targets[1][i].delay = <<>>

\* ---------------------------------------------------------------- keys with no active section
\* C24: with no section active, ArrowDown or PageDown activates the first section
\* (as setActiveSection does: aria-hidden, reveal targets and aria-current follow),
\* and ArrowUp or PageUp changes nothing.
C24_KeysWithNoActiveSection ==
    [][ActiveSet(dom) = {} =>
          /\ last'.op \in DownKeys =>
                (ActiveSet(dom') = {1} /\ dom' = setActiveSection(dom, 1))
          /\ last'.op \in UpKeys => dom' = dom]_vars

\* C24 witness: ArrowDown was handled with no section active (the only way it
\* navigates to the first section) and the first section is now the active one.
C24_Witness ==
    /\ last.op = "ArrowDown"
    /\ last.arg = 1
    /\ ActiveSet(dom) = {1}
    /\ dom.ariaHidden[1] = "false"

====
